---- MODULE Spec2Model ----
(***************************************************************************)
(* Model of supervisor/homeassistant/ws.py: the Home Assistant websocket   *)
(* connection manager (HomeAssistantWS) and protocol client (WSClient).    *)
(*                                                                         *)
(* Every action is one run of a coroutine from one suspension point        *)
(* (await) to the next; callers are asyncio tasks that interleave only at  *)
(* those points.  The peer (Home Assistant) and the token provider are the *)
(* environment.  Messages are Python dicts, modelled as functions from     *)
(* keys to values whose DOMAIN is the set of keys present.                 *)
(***************************************************************************)
EXTENDS Integers, Sequences, FiniteSets, TLC

\* ---- bounds -------------------------------------------------------------
NumTasks == 2      \* concurrent callers of HomeAssistantWS.send_command
MaxCalls == 2      \* HomeAssistantWS.send_command invocations per behaviour

Tasks == 1..NumTasks

\* ---- values drawn by the environment -----------------------------------
Versions == {"2021.1.0", "2021.2.0"}
Tokens == {"tokA"}
StrayIds == {9}    \* ids the peer may echo that match no command sent

\* first message of a connection; its type is never inspected (line 76)
HelloMsgs == {[type |-> "auth_required", ha_version |-> v] : v \in Versions}

\* second message of a connection (line 83)
AuthResultMsgs == {[type |-> "auth_ok"], [type |-> "auth_invalid"]}

\* caller-supplied command mappings, with and without a pre-existing id
Commands == {[type |-> "get_config"], [type |-> "ping", id |-> 7]}

\* answers of the peer to the command carrying id i: a result echoing i, a
\* result echoing a stray id, or a failure carrying no id at all
ResponseMsgs(i) ==
  {[id |-> i, type |-> "result", success |-> TRUE, result |-> [x |-> 1]]}
  \cup {[id |-> j, type |-> "result", success |-> TRUE, result |-> [x |-> 2]] :
      j \in StrayIds}
  \cup {[type |-> "result", success |-> FALSE, error |-> "bad_request"]}

\* ---- Python values ------------------------------------------------------
Unset == [unset |-> TRUE]                \* a local not yet assigned
Str(s) == [str |-> s]                    \* a str used as exception argument
NoResult == [kind |-> "none"]            \* coroutine still running
Return(v) == [kind |-> "return", value |-> v]
\* a raised exception: class, args (the tuple given to the constructor),
\* __cause__ (<<>> for none) and the function whose raise statement made it
Raise(exc, args, cause, origin) ==
  [kind |-> "raise", exc |-> exc, args |-> args, cause |-> cause, origin |-> origin]

\* an id written only when the mapping has none
SetId_keep(m, v) == m @@ ("id" :> v)

\* msg["id"] = v
SetId(m, v) == ("id" :> v) @@ m

\* ..exceptions: HomeAssistantWSError derives from HomeAssistantAPIError
Bases(exc) ==
  IF exc = "HomeAssistantWSError"
    THEN {"HomeAssistantWSError", "HomeAssistantAPIError"}
    ELSE {exc}

\* ---- state --------------------------------------------------------------
VARIABLES
  _client,        \* HomeAssistantWS._client: 0 for None, else index in clients
  clients,        \* the WSClient objects constructed so far
  conns,          \* the websocket connections opened so far
  access_token,   \* sys_homeassistant.api.access_token
  assigned,       \* per WSClient, the ids written by msg["id"] = self.msg_id, in order
  calls,          \* HomeAssistantWS.send_command invocations started
  pc,             \* per task: the await it is suspended at
  msg,            \* per task: the caller's command mapping
  supplied,       \* per task: that mapping as it was when the caller passed it
  token,          \* per task: argument token of connect_with_auth
  client,         \* per task: local client of connect_with_auth
  hello_msg,      \* per task: local hello_msg
  auth_ok_msg,    \* per task: local auth_ok_msg
  self,           \* per task: the WSClient whose send_command is running
  response,       \* per task: local response
  inner,          \* per task: how WSClient.send_command ended
  outcome         \* per task: how HomeAssistantWS.send_command ended

shared == <<_client, clients, conns, access_token, assigned, calls>>
locals == <<pc, msg, supplied, token, client, hello_msg, auth_ok_msg, self, response, inner, outcome>>
vars == <<shared, locals>>

NoClient == 0

Init ==
  /\ _client = NoClient
  /\ clients = <<>>
  /\ conns = <<>>
  /\ access_token = "expired"
  /\ assigned = <<>>
  /\ calls = 0
  /\ pc = [t \in Tasks |-> "idle"]
  /\ msg = [t \in Tasks |-> Unset]
  /\ supplied = [t \in Tasks |-> Unset]
  /\ token = [t \in Tasks |-> "unset"]
  /\ client = [t \in Tasks |-> 0]
  /\ hello_msg = [t \in Tasks |-> Unset]
  /\ auth_ok_msg = [t \in Tasks |-> Unset]
  /\ response = [t \in Tasks |-> Unset]
  /\ self = [t \in Tasks |-> 0]
  /\ inner = [t \in Tasks |-> NoResult]
  /\ outcome = [t \in Tasks |-> NoResult]

\* ---- WSClient -----------------------------------------------------------
\* a constructor that drops the version it is given
WSClient_noversion(version, conn) == [ha_version |-> "unknown", client |-> conn, msg_id |-> 0]

\* WSClient.__init__
WSClient(version, conn) == [ha_version |-> version, client |-> conn, msg_id |-> 0]

\* a counter that is read but never stored back
IncrMsgId_lost(n) == n

\* a counter that stops at 1
IncrMsgId_wrap(n) == IF n >= 1 THEN 1 ELSE n + 1

\* self.msg_id += 1
IncrMsgId(n) == n + 1

\* a client that suspends between reading and writing the counter: an
\* invocation started while another is in flight on c writes back the value
\* the other has already taken
StartCommand_suspends(t, c, cs, ids, m) ==
  LET inflight == \E u \in Tasks :
                    u # t /\ self[u] = c /\ pc[u] \in {"send_json", "receive_json"}
      n == IF inflight THEN cs[c].msg_id ELSE IncrMsgId(cs[c].msg_id) IN
  /\ clients' = [cs EXCEPT ![c].msg_id = n]
  /\ assigned' = [ids EXCEPT ![c] = Append(@, n)]
  /\ msg' = [msg EXCEPT ![t] = SetId(m, n)]
  /\ self' = [self EXCEPT ![t] = c]
  /\ pc' = [pc EXCEPT ![t] = "send_json"]

\* WSClient.send_command up to its first await: count, write the id into the
\* caller's mapping.  cs and ids are clients and assigned as the caller of
\* this fragment leaves them.
StartCommand(t, c, cs, ids, m) ==
  LET n == IncrMsgId(cs[c].msg_id) IN
  /\ clients' = [cs EXCEPT ![c].msg_id = n]
  /\ assigned' = [ids EXCEPT ![c] = Append(@, n)]
  /\ msg' = [msg EXCEPT ![t] = SetId(m, n)]
  /\ self' = [self EXCEPT ![t] = c]
  /\ pc' = [pc EXCEPT ![t] = "send_json"]

\* returns the whole response instead of its result
CommandResult_whole(resp) ==
  IF resp.success
    THEN Return(resp)
    ELSE Raise("HomeAssistantWSError", <<resp>>, <<>>, "WSClient.send_command")

\* raises with the error field only instead of the response
CommandResult_errfield(resp) ==
  IF resp.success
    THEN Return(resp.result)
    ELSE Raise("HomeAssistantWSError", <<Str(resp.error)>>, <<>>, "WSClient.send_command")

\* a client that reads the id of the response and refuses one it did not expect
CommandResult_readsid(resp) ==
  IF "id" \notin DOMAIN resp \/ resp.id \in StrayIds
    THEN Raise("KeyError", <<Str("id")>>, <<>>, "WSClient.send_command")
    ELSE IF resp.success
      THEN Return(resp.result)
      ELSE Raise("HomeAssistantWSError", <<resp>>, <<>>, "WSClient.send_command")

\* a client that needs an id in the response before it looks at the rest
CommandResult_wantsid(resp) ==
  IF "id" \notin DOMAIN resp
    THEN Raise("KeyError", <<Str("id")>>, <<>>, "WSClient.send_command")
    ELSE IF resp.success
      THEN Return(resp.result)
      ELSE Raise("HomeAssistantWSError", <<resp>>, <<>>, "WSClient.send_command")

\* WSClient.send_command after the response arrived: result or error
CommandResult(resp) ==
  IF resp.success
    THEN Return(resp.result)
    ELSE Raise("HomeAssistantWSError", <<resp>>, <<>>, "WSClient.send_command")

\* a check that accepts any auth result carrying a type
AuthOk_anytype(m) == "type" \in DOMAIN m

\* the type check on the auth result
AuthOk(m) == m.type = "auth_ok"

\* the error of a failed session.ws_connect
CantConnect ==
  Raise("HomeAssistantWSError", <<Str("Can't connect")>>, <<>>, "WSClient.connect_with_auth")

\* a rejected authentication reported with the websocket error class
AuthNotOk_ws ==
  Raise("HomeAssistantWSError", <<Str("AUTH NOT OK")>>, <<>>, "WSClient.connect_with_auth")

\* the error of a rejected authentication
AuthNotOk ==
  Raise("HomeAssistantAPIError", <<Str("AUTH NOT OK")>>, <<>>, "WSClient.connect_with_auth")

\* an auth message with a misspelt type marker
AuthMsg_mistyped(tok) == [type |-> "authenticate", access_token |-> tok]

\* {"type": "auth", "access_token": token}
AuthMsg(tok) == [type |-> "auth", access_token |-> tok]

\* ---- HomeAssistantWS ----------------------------------------------------
\* a manager that connects on every call
NoCachedClient_always(c) == TRUE

\* if not self._client
NoCachedClient(c) == c = NoClient

\* a manager that keeps the client it stored first
StoreClient_keepfirst(old, new) == IF old = NoClient THEN new ELSE old

\* self._client = <the client _get_ws_client returned>
StoreClient(old, new) == new

\* a token read before ensure_access_token() was awaited
ReadToken_early(before, after) == before

\* self.sys_homeassistant.api.access_token, evaluated as an argument after
\* ensure_access_token() returned: before and after are the provider's value
\* when _get_ws_client started and when the await returned
ReadToken(before, after) == after

\* a manager that hands the original error's arguments to the new error
Translate_copiesargs(r) ==
  IF r.kind = "raise" /\ "HomeAssistantAPIError" \in Bases(r.exc)
    THEN Raise("HomeAssistantWSError", r.args, <<r>>, "HomeAssistantWS.send_command")
    ELSE r

\* try: return await self._client.send_command(msg)
\* except HomeAssistantAPIError as err: raise HomeAssistantWSError from err
Translate(r) ==
  IF r.kind = "raise" /\ "HomeAssistantAPIError" \in Bases(r.exc)
    THEN Raise("HomeAssistantWSError", <<>>, <<r>>, "HomeAssistantWS.send_command")
    ELSE r

\* ---- transport ----------------------------------------------------------
\* a connection: log is what the client sent and received on it, in order
NewConn == [log |-> <<>>]
Sent(m) == [dir |-> "send", msg |-> m]
Recv(m) == [dir |-> "recv", msg |-> m]

SentMsgs(c) == SelectSeq(conns[c].log, LAMBDA e : e.dir = "send")
RecvMsgs(c) == SelectSeq(conns[c].log, LAMBDA e : e.dir = "recv")

\* client.send_json(m)
send_json(c, m) == conns' = [conns EXCEPT ![c].log = Append(@, Sent(m))]

\* What the peer has for the client to receive next on connection c: the
\* hello once the connection is open, the auth result once it has the auth
\* message, then one response per command in the order the commands arrived.
\* Empty while the peer has nothing to answer.
PeerMsgs(c) ==
  LET k == Len(RecvMsgs(c))
      out == SentMsgs(c)
  IN  IF k = 0 THEN HelloMsgs
      ELSE IF Len(out) < k THEN {}
      ELSE IF k = 1 THEN AuthResultMsgs
      ELSE ResponseMsgs(out[k].msg.id)

\* client.receive_json() returning m
receive_json(c, m) == conns' = [conns EXCEPT ![c].log = Append(@, Recv(m))]

\* ---- actions ------------------------------------------------------------
\* A caller invokes HomeAssistantWS.send_command(m); runs to the first await:
\* ensure_access_token() when nothing is cached, else the cached client's
\* send_json.
Call(t, m) ==
  /\ pc[t] \in {"idle", "done"}
  /\ calls < MaxCalls
  /\ calls' = calls + 1
  /\ supplied' = [supplied EXCEPT ![t] = m]
  /\ token' = [token EXCEPT ![t] = "unset"]
  /\ client' = [client EXCEPT ![t] = 0]
  /\ hello_msg' = [hello_msg EXCEPT ![t] = Unset]
  /\ auth_ok_msg' = [auth_ok_msg EXCEPT ![t] = Unset]
  /\ response' = [response EXCEPT ![t] = Unset]
  /\ inner' = [inner EXCEPT ![t] = NoResult]
  /\ outcome' = [outcome EXCEPT ![t] = NoResult]
  /\ IF NoCachedClient(_client)
       THEN /\ pc' = [pc EXCEPT ![t] = "ensure_access_token"]
            /\ msg' = [msg EXCEPT ![t] = m]
            /\ self' = [self EXCEPT ![t] = 0]
            /\ UNCHANGED <<clients, assigned>>
       ELSE StartCommand(t, _client, clients, assigned, m)
  /\ UNCHANGED <<_client, conns, access_token>>

\* ensure_access_token() returns: the provider holds a valid token, which
\* _get_ws_client reads and hands to connect_with_auth; runs to ws_connect.
EnsureTokenOk(t) ==
  /\ pc[t] = "ensure_access_token"
  /\ \E tok \in Tokens :
       /\ access_token' = tok
       /\ token' = [token EXCEPT ![t] = ReadToken(access_token, tok)]
  /\ pc' = [pc EXCEPT ![t] = "ws_connect"]
  /\ UNCHANGED <<_client, clients, conns, assigned, calls>>
  /\ UNCHANGED <<supplied, msg, client, hello_msg, auth_ok_msg, self, response, inner, outcome>>

\* ensure_access_token() raises: the error, of the class the token provider
\* chose, leaves send_command as it is (line 33 is outside the try)
EnsureTokenFail(t) ==
  /\ pc[t] = "ensure_access_token"
  /\ outcome' = [outcome EXCEPT ![t] =
       Raise("HomeAssistantAPIError", <<>>, <<>>, "ensure_access_token")]
  /\ pc' = [pc EXCEPT ![t] = "done"]
  /\ UNCHANGED shared
  /\ UNCHANGED <<supplied, msg, token, client, hello_msg, auth_ok_msg, self, response, inner>>

\* session.ws_connect(url) returns a connection; runs to the first receive
WsConnectOk(t) ==
  /\ pc[t] = "ws_connect"
  /\ conns' = Append(conns, NewConn)
  /\ client' = [client EXCEPT ![t] = Len(conns) + 1]
  /\ pc' = [pc EXCEPT ![t] = "receive_hello"]
  /\ UNCHANGED <<_client, clients, access_token, assigned, calls>>
  /\ UNCHANGED <<supplied, msg, token, hello_msg, auth_ok_msg, self, response, inner, outcome>>

\* session.ws_connect(url) raises ClientConnectorError
WsConnectFail(t) ==
  /\ pc[t] = "ws_connect"
  /\ outcome' = [outcome EXCEPT ![t] = CantConnect]
  /\ pc' = [pc EXCEPT ![t] = "done"]
  /\ UNCHANGED shared
  /\ UNCHANGED <<supplied, msg, token, client, hello_msg, auth_ok_msg, self, response, inner>>

\* hello_msg = await client.receive_json(); runs to the send of the token
ReceiveHello(t) ==
  /\ pc[t] = "receive_hello"
  /\ \E m \in PeerMsgs(client[t]) :
       /\ hello_msg' = [hello_msg EXCEPT ![t] = m]
       /\ receive_json(client[t], m)
  /\ pc' = [pc EXCEPT ![t] = "send_auth"]
  /\ UNCHANGED <<_client, clients, access_token, assigned, calls>>
  /\ UNCHANGED <<supplied, msg, token, client, auth_ok_msg, self, response, inner, outcome>>

\* await client.send_json({"type": "auth", "access_token": token})
SendAuth(t) ==
  /\ pc[t] = "send_auth"
  /\ send_json(client[t], AuthMsg(token[t]))
  /\ pc' = [pc EXCEPT ![t] = "receive_auth"]
  /\ UNCHANGED <<_client, clients, access_token, assigned, calls>>
  /\ UNCHANGED <<supplied, msg, token, client, hello_msg, auth_ok_msg, self, response, inner, outcome>>

\* auth_ok_msg = await client.receive_json(); then either the auth error
\* leaves connect_with_auth, _get_ws_client and send_command, or the new
\* WSClient is returned, stored in self._client and its send_command runs to
\* its send_json.
ReceiveAuth(t) ==
  /\ pc[t] = "receive_auth"
  /\ \E m \in PeerMsgs(client[t]) :
       /\ receive_json(client[t], m)
       /\ auth_ok_msg' = [auth_ok_msg EXCEPT ![t] = m]
       /\ IF AuthOk(m)
            THEN LET new == WSClient(hello_msg[t].ha_version, client[t])
                     c == StoreClient(_client, Len(clients) + 1)
                 IN  /\ _client' = c
                     /\ StartCommand(t, c, Append(clients, new),
                                     Append(assigned, <<>>), msg[t])
                     /\ UNCHANGED outcome
            ELSE /\ outcome' = [outcome EXCEPT ![t] = AuthNotOk]
                 /\ pc' = [pc EXCEPT ![t] = "done"]
                 /\ UNCHANGED <<_client, clients, assigned, msg, self>>
  /\ UNCHANGED <<access_token, calls>>
  /\ UNCHANGED <<supplied, token, client, hello_msg, response, inner>>

\* await self.client.send_json(msg) of WSClient.send_command
SendCommand(t) ==
  /\ pc[t] = "send_json"
  /\ send_json(clients[self[t]].client, msg[t])
  /\ pc' = [pc EXCEPT ![t] = "receive_json"]
  /\ UNCHANGED <<_client, clients, access_token, assigned, calls>>
  /\ UNCHANGED <<supplied, msg, token, client, hello_msg, auth_ok_msg, self, response, inner, outcome>>

\* a client that retries: on a failure response it transmits the command
\* again and waits for another response
ReceiveResponse_retry(t) ==
  /\ pc[t] = "receive_json"
  /\ \E m \in PeerMsgs(clients[self[t]].client) :
       /\ response' = [response EXCEPT ![t] = m]
       /\ IF m.success
            THEN /\ receive_json(clients[self[t]].client, m)
                 /\ inner' = [inner EXCEPT ![t] = CommandResult(m)]
                 /\ outcome' = [outcome EXCEPT ![t] = Translate(CommandResult(m))]
                 /\ pc' = [pc EXCEPT ![t] = "done"]
            ELSE /\ conns' = [conns EXCEPT ![clients[self[t]].client].log =
                                Append(Append(@, Recv(m)), Sent(msg[t]))]
                 /\ UNCHANGED <<inner, outcome, pc>>
  /\ UNCHANGED <<_client, clients, access_token, assigned, calls>>
  /\ UNCHANGED <<supplied, msg, token, client, hello_msg, auth_ok_msg, self>>

\* a client that gives up waiting: the invocation ends with a timeout error
\* and no message consumed
ReceiveResponse_timeout(t) ==
  /\ pc[t] = "receive_json"
  /\ inner' = [inner EXCEPT ![t] =
                 Raise("TimeoutError", <<>>, <<>>, "WSClient.send_command")]
  /\ outcome' = [outcome EXCEPT ![t] =
                 Raise("TimeoutError", <<>>, <<>>, "WSClient.send_command")]
  /\ pc' = [pc EXCEPT ![t] = "done"]
  /\ UNCHANGED <<_client, clients, conns, access_token, assigned, calls>>
  /\ UNCHANGED <<supplied, msg, token, client, hello_msg, auth_ok_msg, self, response>>

\* response = await self.client.receive_json(); WSClient.send_command ends
\* and HomeAssistantWS.send_command returns its value or translates its error
ReceiveResponse(t) ==
  /\ pc[t] = "receive_json"
  /\ \E m \in PeerMsgs(clients[self[t]].client) :
       /\ receive_json(clients[self[t]].client, m)
       /\ response' = [response EXCEPT ![t] = m]
       /\ inner' = [inner EXCEPT ![t] = CommandResult(m)]
       /\ outcome' = [outcome EXCEPT ![t] = Translate(CommandResult(m))]
  /\ pc' = [pc EXCEPT ![t] = "done"]
  /\ UNCHANGED <<_client, clients, access_token, assigned, calls>>
  /\ UNCHANGED <<supplied, msg, token, client, hello_msg, auth_ok_msg, self>>

Next ==
  \/ \E t \in Tasks, m \in Commands : Call(t, m)
  \/ \E t \in Tasks : EnsureTokenOk(t)
  \/ \E t \in Tasks : EnsureTokenFail(t)
  \/ \E t \in Tasks : WsConnectOk(t)
  \/ \E t \in Tasks : WsConnectFail(t)
  \/ \E t \in Tasks : ReceiveHello(t)
  \/ \E t \in Tasks : SendAuth(t)
  \/ \E t \in Tasks : ReceiveAuth(t)
  \/ \E t \in Tasks : SendCommand(t)
  \/ \E t \in Tasks : ReceiveResponse(t)

Spec == Init /\ [][Next]_vars

\* The same program with its callers serialized: a call starts only when no
\* other call is running.
NoCallRunning == \A t \in Tasks : pc[t] \in {"idle", "done"}

NextSeq ==
  \/ \E t \in Tasks, m \in Commands : NoCallRunning /\ Call(t, m)
  \/ \E t \in Tasks : EnsureTokenOk(t)
  \/ \E t \in Tasks : EnsureTokenFail(t)
  \/ \E t \in Tasks : WsConnectOk(t)
  \/ \E t \in Tasks : WsConnectFail(t)
  \/ \E t \in Tasks : ReceiveHello(t)
  \/ \E t \in Tasks : SendAuth(t)
  \/ \E t \in Tasks : ReceiveAuth(t)
  \/ \E t \in Tasks : SendCommand(t)
  \/ \E t \in Tasks : ReceiveResponse(t)

SpecSeq == Init /\ [][NextSeq]_vars

\* The serialized program with a peer that eventually delivers the message
\* each receive_json() is waiting for: a receive that stays possible is
\* eventually taken.  Nothing else is assumed of the scheduling.
PeerDelivers ==
  \A t \in Tasks : /\ WF_vars(ReceiveHello(t))
                   /\ WF_vars(ReceiveAuth(t))
                   /\ WF_vars(ReceiveResponse(t))

SpecLive == Init /\ [][NextSeq]_vars /\ PeerDelivers

\* ---- typing -------------------------------------------------------------
TypeOK ==
  /\ _client \in 0..Len(clients)
  /\ Len(assigned) = Len(clients)
  /\ calls \in 0..MaxCalls
  /\ \A t \in Tasks : pc[t] \in {"idle", "ensure_access_token", "ws_connect",
        "receive_hello", "send_auth", "receive_auth", "send_json",
        "receive_json", "done"}
  /\ \A i \in 1..Len(clients) : clients[i].client \in 1..Len(conns)

\* ---- properties ---------------------------------------------------------
ConnOf(c) == clients[c].client
AuthMsgOnWire(tok) == [type |-> "auth", access_token |-> tok]
Log(k) == conns[k].log
Clients == 1..Len(clients)
Conns == 1..Len(conns)

\* the ids of the command messages transmitted on client c's connection, in
\* the order of transmission (the first message sent is the auth message)
CommandIds(c) ==
  LET out == SentMsgs(ConnOf(c)) IN [i \in 1..(Len(out) - 1) |-> out[i + 1].msg.id]

\* the handshake on connection k has received "auth_ok"
Authenticated(k) == Len(Log(k)) >= 3 /\ Log(k)[3] = Recv([type |-> "auth_ok"])

\* the error of task t was raised by a raise statement of WSClient, or wraps one
WSClientFns == {"WSClient.send_command", "WSClient.connect_with_auth"}
RaisedInWSClient(o) ==
  /\ o.kind = "raise"
  /\ \/ o.origin \in WSClientFns
     \/ o.cause # <<>> /\ o.cause[1].origin \in WSClientFns

\* C1: on every client the ids written into the commands are 1, 2, ..., N in
\* the order the send_command invocations started, N being that client's own
\* counter (so it started at 0 and counts only its own invocations); the ids
\* transmitted on its connection are among them, none is transmitted twice,
\* and all N are transmitted once no invocation is waiting to send.
C1_IdsCountFromOne ==
  \A c \in Clients :
    LET ids == CommandIds(c) IN
    /\ Len(assigned[c]) = clients[c].msg_id
    /\ \A i \in 1..Len(assigned[c]) : assigned[c][i] = i
    /\ \A i \in 1..Len(ids) : ids[i] \in 1..clients[c].msg_id
    /\ \A i, j \in 1..Len(ids) : ids[i] = ids[j] => i = j
    /\ (\A t \in Tasks : ~(pc[t] = "send_json" /\ self[t] = c))
         => Len(ids) = clients[c].msg_id

\* a client that has transmitted two commands
C1_Witness == \E c \in Clients : clients[c].msg_id >= 2 /\ Len(CommandIds(c)) >= 2

\* C2: every error raised by WSClient code during HomeAssistantWS.send_command
\* reaches the caller as HomeAssistantWSError, never as HomeAssistantAPIError.
C2_CallerSeesOnlyUnifiedKind ==
  \A t \in Tasks :
    RaisedInWSClient(outcome[t]) => outcome[t].exc = "HomeAssistantWSError"

\* C3: a failed handshake (connector failure or auth result other than
\* "auth_ok") reaches the caller of HomeAssistantWS.send_command as
\* HomeAssistantWSError, whichever stage failed.
C3_HandshakeFailureIsUnified ==
  \A t \in Tasks :
    (pc[t] = "done" /\ token[t] # "unset" /\ self[t] = 0)
      => outcome[t].kind = "raise" /\ outcome[t].exc = "HomeAssistantWSError"

\* C4: the cached-client slot is empty or holds a client whose handshake
\* received "auth_ok"; a step in which a handshake fails (connector failure or
\* rejected auth) leaves the slot as it was, and a call that finds the slot
\* empty starts a handshake.
SlotHoldsAuthenticated ==
  _client # NoClient => _client \in Clients /\ Authenticated(ConnOf(_client))

HandshakeFails(t) == pc[t] \in {"ws_connect", "receive_auth"} /\ pc'[t] = "done"

CallStarts(t) == pc[t] \in {"idle", "done"} /\ pc'[t] \notin {"idle", "done"}

C4_FailedHandshakeNeverCached ==
  /\ []SlotHoldsAuthenticated
  /\ [][\A t \in Tasks :
          /\ HandshakeFails(t) => _client' = _client /\ clients' = clients
          /\ (CallStarts(t) /\ _client = NoClient) => pc'[t] = "ensure_access_token"]_vars

\* a rejected authentication with the slot still empty
C4_Witness ==
  \E t \in Tasks :
    /\ pc[t] = "done" /\ auth_ok_msg[t] = [type |-> "auth_invalid"]
    /\ _client = NoClient

\* C5: a handshake whose auth result has a type other than "auth_ok" ends with
\* HomeAssistantAPIError and constructs no WSClient; only "auth_ok" leads to a
\* client: every WSClient sits on a connection that received "auth_ok", one
\* client per such connection.
C5_OnlyAuthOkReachesReady ==
  /\ \A t \in Tasks :
       auth_ok_msg[t] # Unset =>
         IF auth_ok_msg[t].type = "auth_ok"
           THEN self[t] \in Clients /\ ConnOf(self[t]) = client[t]
           ELSE /\ pc[t] = "done" /\ self[t] = 0
                /\ outcome[t].kind = "raise"
                /\ outcome[t].exc = "HomeAssistantAPIError"
  /\ \A c \in Clients : Authenticated(ConnOf(c))
  /\ \A c, d \in Clients : ConnOf(c) = ConnOf(d) => c = d
  /\ Len(clients) = Cardinality({k \in Conns : Authenticated(k)})

\* a handshake that ended in the authentication error
C5_Witness ==
  \E t \in Tasks :
    /\ auth_ok_msg[t] # Unset /\ auth_ok_msg[t].type # "auth_ok"
    /\ outcome[t].kind = "raise" /\ outcome[t].args = <<Str("AUTH NOT OK")>>

\* C6: a client's ha_version is the ha_version of the first message received
\* on its connection, in every state (so no send_command changes it), and the
\* first id it assigns is 1.
C6_VersionFromHello ==
  \A c \in Clients :
    /\ Log(ConnOf(c))[1].dir = "recv"
    /\ clients[c].ha_version = Log(ConnOf(c))[1].msg.ha_version
    /\ Len(assigned[c]) >= 1 /\ assigned[c][1] = 1

\* a client two commands old, one of them answered, with the second version
C6_Witness ==
  \E c \in Clients :
    /\ clients[c].ha_version = "2021.2.0"
    /\ clients[c].msg_id >= 2
    /\ Len(RecvMsgs(ConnOf(c))) >= 3

\* C7: when the response has a true success indicator, WSClient.send_command
\* returns its result payload and HomeAssistantWS.send_command returns the
\* same value.
C7_SuccessReturnsResult ==
  \A t \in Tasks :
    (pc[t] = "done" /\ response[t] # Unset /\ response[t].success)
      => /\ inner[t] = Return(response[t].result)
         /\ outcome[t] = Return(response[t].result)

\* a call that returned {"x": 1}
C7_Witness ==
  \E t \in Tasks :
    /\ pc[t] = "done" /\ response[t] # Unset /\ response[t].success
    /\ outcome[t] = Return([x |-> 1])

\* C8: when the response has a false success indicator, WSClient.send_command
\* returns nothing and raises HomeAssistantWSError whose argument is the
\* response as received.
C8_FailureRaisesWithResponse ==
  \A t \in Tasks :
    (pc[t] = "done" /\ response[t] # Unset /\ ~response[t].success)
      => /\ inner[t].kind = "raise"
         /\ inner[t].exc = "HomeAssistantWSError"
         /\ inner[t].args = <<response[t]>>

\* a command that failed with "bad_request" in its error's payload
C8_Witness ==
  \E t \in Tasks :
    /\ pc[t] = "done" /\ inner[t].kind = "raise"
    /\ inner[t].origin = "WSClient.send_command"
    /\ inner[t].args[1].error = "bad_request"

\* C9: with calls issued one after another, once a client is cached no step
\* clears or replaces it, opens a connection, constructs a client or touches
\* the token, no call is in a handshake, and a call that starts runs on the
\* cached client with the next id of its counter.
HandshakePcs ==
  {"ensure_access_token", "ws_connect", "receive_hello", "send_auth", "receive_auth"}

C9_CachedClientReused ==
  [][_client # NoClient =>
       /\ _client' = _client
       /\ Len(conns') = Len(conns)
       /\ Len(clients') = Len(clients)
       /\ access_token' = access_token
       /\ \A t \in Tasks :
            /\ pc'[t] \notin HandshakePcs
            /\ CallStarts(t) =>
                 /\ pc'[t] = "send_json"
                 /\ self'[t] = _client
                 /\ msg'[t].id = clients[_client].msg_id + 1]_vars

\* a call running on the cached client, with id 2, after the command before
\* it failed
C9_Witness ==
  \E t, u \in Tasks :
    /\ pc[t] = "done" /\ response[t] # Unset /\ ~response[t].success
    /\ pc[u] = "send_json" /\ token[u] = "unset"
    /\ self[u] = _client /\ msg[u].id = 2

\* C10: every connection carries, in this order, a received message, the one
\* auth message sent, a received message, and commands only after that third
\* message was "auth_ok"; no other auth message is ever sent on it, and a task
\* running a client's send_command is not in the handshake.
C10_HandshakeBeforeCommands ==
  /\ \A k \in Conns :
       LET lg == Log(k) IN
       /\ Len(lg) >= 1 => lg[1].dir = "recv"
       /\ Len(lg) >= 2 => lg[2].dir = "send" /\ \E tok \in Tokens : lg[2].msg = AuthMsgOnWire(tok)
       /\ Len(lg) >= 3 => lg[3].dir = "recv"
       /\ Len(lg) >= 4 => lg[3].msg.type = "auth_ok"
       /\ \A i \in 4..Len(lg) : lg[i].dir = "send" => lg[i].msg.type # "auth"
  /\ \A t \in Tasks :
       /\ (pc[t] \in {"send_json", "receive_json"}) => self[t] \in Clients /\ Authenticated(ConnOf(self[t]))
       /\ (pc[t] \in HandshakePcs) => self[t] = 0 /\ \A c \in Clients : ConnOf(c) # client[t]

\* a connection with a command sent and answered after the handshake
C10_Witness ==
  \E k \in Conns : Len(Log(k)) >= 5 /\ Log(k)[4].dir = "send" /\ Log(k)[5].dir = "recv"

\* C11: no connection exists before an ensure_access_token() has completed;
\* a call that has opened a connection holds a token read after its ensure
\* step, and that is the token of the auth message on the connection; a call
\* whose ensure step failed opened no connection and got no client.
TokenEnsured ==
  /\ access_token \notin Tokens => conns = <<>> /\ _client = NoClient
  /\ \A t \in Tasks :
       /\ pc[t] = "ensure_access_token" => client[t] = 0 /\ token[t] = "unset"
       /\ client[t] # 0 => token[t] \in Tokens
       /\ (pc[t] = "done" /\ token[t] = "unset" /\ self[t] = 0)
            => /\ outcome[t].kind = "raise"
               /\ outcome[t].origin = "ensure_access_token"
               /\ client[t] = 0
  /\ \A k \in Conns :
       \/ Len(Log(k)) >= 2 /\ Log(k)[2].msg.access_token \in Tokens
       \/ \E t \in Tasks : /\ client[t] = k /\ token[t] \in Tokens
                           /\ pc[t] \in {"receive_hello", "send_auth"}

\* C11, as steps: a connection is opened only by a call whose ensure step
\* has completed and handed it a valid token, and the step in which the
\* ensure step fails opens nothing and caches nothing.
C11_TokenEnsuredBeforeConnect ==
  /\ []TokenEnsured
  /\ [][\A t \in Tasks :
          /\ (pc[t] = "ensure_access_token" /\ pc'[t] = "done")
               => conns' = conns /\ clients' = clients /\ _client' = _client
          /\ (client'[t] # client[t] /\ client'[t] # 0)
               => /\ pc[t] = "ws_connect" /\ token[t] \in Tokens
                  /\ Len(conns') = Len(conns) + 1
                  /\ client'[t] = Len(conns')]_vars

\* an auth message on the wire, and a call that ended in the ensure step
C11_Witness ==
  /\ \E k \in Conns : Len(Log(k)) >= 2 /\ Log(k)[2].msg.access_token = "tokA"
  /\ \E t \in Tasks : /\ pc[t] = "done" /\ outcome[t].kind = "raise"
                      /\ outcome[t].origin = "ensure_access_token"

\* the peer's answer to the i-th message sent on connection k is the (i+1)-th
\* message received on it (the hello precedes the auth message)
AnswerTo(k, i) == RecvMsgs(k)[i + 1].msg

\* C12: with serialized callers, the response a finished send_command consumed
\* is the peer's answer to the command carrying that call's id, and the call
\* returned that response's result or raised with that response.
C12_SerializedOutcomeIsOwnAnswer ==
  \A t \in Tasks :
    (pc[t] = "done" /\ response[t] # Unset) =>
      LET k == ConnOf(self[t])
          out == SentMsgs(k)
      IN  /\ \E i \in 2..Len(out) : out[i].msg.id = msg[t].id
          /\ \A i \in 2..Len(out) :
               out[i].msg.id = msg[t].id =>
                 /\ Len(RecvMsgs(k)) >= i + 1
                 /\ AnswerTo(k, i) = response[t]
                 /\ IF AnswerTo(k, i).success
                      THEN outcome[t] = Return(AnswerTo(k, i).result)
                      ELSE /\ outcome[t].kind = "raise"
                           /\ inner[t].args = <<AnswerTo(k, i)>>

\* two serialized commands on one client, the first answered with a failure
\* and the second with a result
C12_Witness ==
  \E t, u \in Tasks :
    /\ pc[t] = "done" /\ pc[u] = "done" /\ self[t] = self[u] /\ self[t] # 0
    /\ msg[t].id = 1 /\ msg[u].id = 2
    /\ response[t] # Unset /\ ~response[t].success
    /\ response[u] # Unset /\ response[u].success

\* the response task t consumed does not carry the id of t's command
IdMismatch(t) == "id" \notin DOMAIN response[t] \/ response[t].id # msg[t].id

\* C13: a response whose id differs from the id just sent, or that has no id,
\* is taken as the command's response: its result is returned or its failure
\* raised.
C13_ResponseIdNotInspected ==
  \A t \in Tasks :
    (pc[t] = "done" /\ response[t] # Unset /\ IdMismatch(t)) =>
      IF response[t].success
        THEN inner[t] = Return(response[t].result)
        ELSE inner[t] = Raise("HomeAssistantWSError", <<response[t]>>, <<>>,
                              "WSClient.send_command")

\* a result echoing a stray id was returned, and a failure without id raised
C13_Witness ==
  /\ \E t \in Tasks :
       /\ pc[t] = "done" /\ response[t] # Unset /\ response[t].success
       /\ response[t].id \in StrayIds /\ inner[t] = Return([x |-> 2])
  /\ \E t \in Tasks :
       /\ pc[t] = "done" /\ response[t] # Unset /\ "id" \notin DOMAIN response[t]
       /\ inner[t].kind = "raise"

\* C14: correlation trusts ordering: the receive that ends a send_command
\* consumes the peer's answer to the oldest unanswered command on the
\* connection, whoever sent that command, and the caller gets that answer's
\* result or failure; with two interleaved invocations a caller so receives
\* the result of the answer to the other caller's command (C14_Witness).
C14_ReceiveTakesOldestAnswer ==
  [][\A t \in Tasks :
       (pc[t] = "receive_json" /\ pc'[t] = "done") =>
         LET k == ConnOf(self[t])
             oldest == SentMsgs(k)[Len(RecvMsgs(k))].msg
         IN  /\ response'[t] \in ResponseMsgs(oldest.id)
             /\ conns'[k].log = Append(Log(k), Recv(response'[t]))
             /\ IF response'[t].success
                  THEN inner'[t] = Return(response'[t].result)
                  ELSE /\ inner'[t].kind = "raise"
                       /\ inner'[t].exc = "HomeAssistantWSError"
                       /\ inner'[t].args = <<response'[t]>>]_vars

\* caller t returned the result of the answer that echoes the id of caller
\* u's command, u's command having been sent on the same client
C14_Witness ==
  \E t, u \in Tasks :
    /\ t # u /\ self[t] # 0 /\ self[t] = self[u]
    /\ pc[t] = "done" /\ pc[u] \in {"receive_json", "done"}
    /\ response[t] # Unset /\ response[t].success
    /\ msg[u].id # msg[t].id
    /\ response[t].id = msg[u].id
    /\ outcome[t] = Return(response[t].result)

\* C15: the manager does not serialize client creation: every handshake that
\* succeeds stores its client in the slot unconditionally, so the slot always
\* holds the client created last; each earlier client stays authenticated on
\* a connection of its own, out of the slot, known only to invocations that
\* created it or took it from the slot before.  Two calls started with nothing cached both
\* handshake, and the first stored client is so left behind (C15_Witness).
SlotHoldsLast ==
  /\ _client = Len(clients)
  /\ \A c \in Clients :
       /\ ConnOf(c) \in Conns /\ Authenticated(ConnOf(c))
       /\ \A d \in Clients : c # d => ConnOf(c) # ConnOf(d)
       /\ \A t \in Tasks : self[t] = c => client[t] \in {0, ConnOf(c)}

\* C15, as steps: a handshake that succeeds stores its new client whatever
\* the slot held, and nothing else ever writes the slot.
C15_SlotHoldsLastStored ==
  /\ []SlotHoldsLast
  /\ [][\/ _client' = _client /\ Len(clients') = Len(clients)
        \/ /\ Len(clients') = Len(clients) + 1
           /\ _client' = Len(clients')
           /\ \E t \in Tasks : pc[t] = "receive_auth" /\ self'[t] = _client']_vars

\* both tasks ran a full handshake; the slot holds the second client and the
\* first is known only to the task that created it
C15_Witness ==
  /\ Len(clients) = 2 /\ _client = 2
  /\ Authenticated(ConnOf(1)) /\ Authenticated(ConnOf(2))
  /\ \E t, u \in Tasks :
       /\ t # u
       /\ self[t] = 1 /\ client[t] = ConnOf(1)
       /\ self[u] = 2 /\ client[u] = ConnOf(2)

\* C16: no receive has a timeout.  A task leaves a receive_json() of the
\* handshake or of send_command only in a step that takes one incoming
\* message from its connection, and for a command that message comes after
\* the command was sent; so while the peer delivers nothing the caller stays
\* where it is.  When the peer eventually delivers after every send, every
\* receive of the handshake and every invocation eventually completes.
RecvPcs == {"receive_hello", "receive_auth", "receive_json"}

ConnAt(t) == IF pc[t] = "receive_json" THEN ConnOf(self[t]) ELSE client[t]

LeavesOnlyOnMessage(t) ==
  (pc[t] \in RecvPcs /\ pc'[t] # pc[t]) =>
    /\ \E m \in PeerMsgs(ConnAt(t)) :
          conns'[ConnAt(t)].log = Append(Log(ConnAt(t)), Recv(m))
    /\ pc[t] = "receive_json" =>
         /\ \E i \in 1..Len(Log(ConnAt(t))) : Log(ConnAt(t))[i] = Sent(msg[t])
         /\ conns'[ConnAt(t)].log = Append(Log(ConnAt(t)), Recv(response'[t]))

C16_CompletesOnlyOnMessage ==
  /\ [][\A t \in Tasks : LeavesOnlyOnMessage(t)]_vars
  /\ \A t \in Tasks :
       /\ (pc[t] = "receive_hello") ~> (pc[t] = "send_auth")
       /\ (pc[t] = "receive_auth") ~> (pc[t] \in {"send_json", "done"})
       /\ (pc[t] = "receive_json") ~> (pc[t] = "done" /\ response[t] # Unset)

\* an invocation completed on a message received after its own send
C16_Witness ==
  \E t \in Tasks :
    /\ pc[t] = "done" /\ response[t] # Unset
    /\ LET log == Log(ConnOf(self[t])) IN
         \E i, j \in 1..Len(log) :
           /\ i < j
           /\ log[i] = Sent(msg[t])
           /\ log[j] = Recv(response[t])

\* C17: an invocation of send_command counts, writes the id, transmits and
\* receives, once each and in that order.  On every client the commands on
\* the wire plus the invocations about to transmit equal the invocations
\* started, and the responses consumed plus the invocations waiting equal the
\* commands on the wire: one message out and one message in per invocation,
\* no retry.  A response, failure included, ends the invocation in the step
\* that received it; a failure ends it with an error.
TasksAt(c, p) == {t \in Tasks : self[t] = c /\ pc[t] = p}

\* where in the log of its client's connection task t's command appears
SentAt(t) ==
  LET log == Log(ConnOf(self[t])) IN {i \in 1..Len(log) : log[i] = Sent(msg[t])}

OneOutOneIn ==
  /\ \A c \in Clients :
       LET sent == Len(SentMsgs(ConnOf(c))) - 1
           consumed == Len(Log(ConnOf(c))) - sent - 3
       IN  /\ sent + Cardinality(TasksAt(c, "send_json")) = clients[c].msg_id
           /\ consumed + Cardinality(TasksAt(c, "receive_json")) = sent
  /\ \A t \in Tasks :
       /\ pc[t] = "send_json" => "id" \in DOMAIN msg[t] /\ SentAt(t) = {}
       /\ pc[t] = "receive_json" => Cardinality(SentAt(t)) = 1
       /\ response[t] # Unset =>
            /\ pc[t] = "done"
            /\ Cardinality(SentAt(t)) = 1
            /\ \E i \in SentAt(t) :
                 \E j \in (i + 1)..Len(Log(ConnOf(self[t]))) :
                   Log(ConnOf(self[t]))[j] = Recv(response[t])
            /\ ~response[t].success => outcome[t].kind = "raise"

\* C17, as steps: an invocation moves from its send to its receive and from
\* its receive to its end, never back; the step that receives the response
\* ends it, with an error when the response is a failure.
C17_OneOutOneInNoRetry ==
  /\ []OneOutOneIn
  /\ [][\A t \in Tasks :
          /\ pc[t] = "send_json" => pc'[t] \in {"send_json", "receive_json"}
          /\ pc[t] = "receive_json" => pc'[t] \in {"receive_json", "done"}
          /\ (pc[t] = "receive_json" /\ pc'[t] = "done")
               => /\ response'[t] # Unset
                  /\ ~response'[t].success => outcome'[t].kind = "raise"]_vars

\* the only command on a connection got a failure response: one command
\* message out, one response in, the caller holds the error
C17_Witness ==
  \E t \in Tasks :
    /\ pc[t] = "done" /\ response[t] # Unset /\ ~response[t].success
    /\ outcome[t].kind = "raise"
    /\ clients[self[t]].msg_id = 1
    /\ Len(Log(ConnOf(self[t]))) = 5
    /\ Log(ConnOf(self[t]))[4] = Sent(msg[t])
    /\ Log(ConnOf(self[t]))[5] = Recv(response[t])
    /\ calls = MaxCalls

\* C18: send_command changes the caller's mapping in its "id" key and nowhere
\* else.  Until WSClient.send_command starts the mapping is as supplied; from
\* then on it has the supplied keys plus "id", every other key with the
\* supplied value, and "id" holds a value the client's counter assigned,
\* whatever id the caller had put there; the message transmitted is that
\* mapping.
Assigned(c) == {assigned[c][i] : i \in 1..Len(assigned[c])}

C18_OnlyIdWritten ==
  \A t \in Tasks :
    /\ (pc[t] # "idle" /\ self[t] = 0) => msg[t] = supplied[t]
    /\ self[t] # 0 =>
         /\ DOMAIN msg[t] = DOMAIN supplied[t] \cup {"id"}
         /\ \A key \in DOMAIN supplied[t] \ {"id"} : msg[t][key] = supplied[t][key]
         /\ msg[t].id \in Assigned(self[t])
         /\ pc[t] \in {"receive_json", "done"} =>
              \E i \in 1..Len(Log(ConnOf(self[t]))) :
                Log(ConnOf(self[t]))[i] = Sent(msg[t])

\* a command supplied with id 7 went out, and came back to the caller, with
\* the counter's value in its place and its type untouched
C18_Witness ==
  \E t \in Tasks :
    /\ pc[t] = "done" /\ self[t] # 0
    /\ supplied[t] = [type |-> "ping", id |-> 7]
    /\ msg[t] = [type |-> "ping", id |-> 1]
    /\ Log(ConnOf(self[t]))[4] = Sent([type |-> "ping", id |-> 1])
    /\ outcome[t].kind = "return"

\* C19: the increment and the id write happen with no suspension between
\* them, so however the invocations interleave at their awaits, the ids
\* written on one client are pairwise different, two invocations on the same
\* client never hold the same id, and the client's counter equals the number
\* of invocations started on it.
IdsUnique ==
  /\ \A c \in Clients :
       /\ clients[c].msg_id = Len(assigned[c])
       /\ \A i, j \in 1..Len(assigned[c]) : i # j => assigned[c][i] # assigned[c][j]
  /\ \A t, u \in Tasks :
       (t # u /\ self[t] # 0 /\ self[t] = self[u]) => msg[t].id # msg[u].id

\* C19, as steps: a step that starts an invocation on a client adds one to
\* its counter and writes that very value into the caller's mapping; no
\* other step touches a counter.
StartsOn(t, c) == self'[t] = c /\ pc'[t] = "send_json" /\ pc[t] # "send_json"

C19_IdsUniqueCounterCounts ==
  /\ []IdsUnique
  /\ [][\A c \in Clients :
          IF \E t \in Tasks : StartsOn(t, c)
            THEN /\ clients'[c].msg_id = clients[c].msg_id + 1
                 /\ \A t \in Tasks : StartsOn(t, c) => msg'[t].id = clients'[c].msg_id
            ELSE clients'[c].msg_id = clients[c].msg_id]_vars

\* two invocations in flight on one client at once
C19_Witness ==
  \E t, u \in Tasks :
    /\ t # u /\ self[t] # 0 /\ self[t] = self[u]
    /\ pc[t] \in {"send_json", "receive_json"}
    /\ pc[u] \in {"send_json", "receive_json"}
    /\ clients[self[t]].msg_id = 2
    /\ msg[t].id = 1 /\ msg[u].id = 2

\* C20: through the manager, a response with a false success indicator
\* reaches the caller as a HomeAssistantWSError newly raised by the manager,
\* with no arguments of its own; the response body is the argument of the
\* client's original error only, which the new error carries as its cause.
C20_PayloadOnlyOnCause ==
  \A t \in Tasks :
    (pc[t] = "done" /\ response[t] # Unset /\ ~response[t].success)
      => /\ outcome[t].kind = "raise"
         /\ outcome[t].exc = "HomeAssistantWSError"
         /\ outcome[t].origin = "HomeAssistantWS.send_command"
         /\ outcome[t].args = <<>>
         /\ outcome[t].cause = <<inner[t]>>
         /\ outcome[t].cause[1].origin = "WSClient.send_command"
         /\ outcome[t].cause[1].args = <<response[t]>>

\* the caller holds an error without arguments whose cause carries the
\* "bad_request" response
C20_Witness ==
  \E t \in Tasks :
    /\ pc[t] = "done" /\ outcome[t].kind = "raise"
    /\ outcome[t].origin = "HomeAssistantWS.send_command"
    /\ outcome[t].args = <<>>
    /\ outcome[t].cause # <<>>
    /\ outcome[t].cause[1].args[1].error = "bad_request"

====
